---- MODULE Spec2Model ----
(***************************************************************************)
(* Ration optimisation of adiorany3/ransumruminansia.                      *)
(*                                                                         *)
(* Numbers the program holds as Python floats are modelled as exact        *)
(* rationals [n |-> numerator, d |-> denominator > 0] in lowest terms, so  *)
(* a division by 1000 or 10000 in the code stays a division here.          *)
(* scipy.optimize.linprog(method='highs') is modelled by its contract: it  *)
(* reports success exactly when the polytope {x >= 0, A_ub x <= b_ub} is   *)
(* non-empty (the total-amount rows make it bounded) and then returns an   *)
(* optimal vertex.                                                         *)
(***************************************************************************)
EXTENDS Integers, Sequences, FiniteSets, TLC

-----------------------------------------------------------------------------
(* Exact arithmetic standing for Python float arithmetic.                  *)

Abs(i) == IF i < 0 THEN -i ELSE i

RECURSIVE GcdNat(_, _)
GcdNat(a, b) == IF b = 0 THEN a ELSE GcdNat(b, a % b)

Gcd(a, b) == GcdNat(Abs(a), Abs(b))

Lcm(a, b) == (a \div Gcd(a, b)) * b

\* the rational p/q (q # 0) in lowest terms with a positive denominator
Q(p, q) ==
    LET g == Gcd(Abs(p), Abs(q))
        s == IF q < 0 THEN -1 ELSE 1
    IN  [n |-> s * (p \div g), d |-> s * (q \div g)]

R(i) == [n |-> i, d |-> 1]

RAdd(a, b) ==
    LET l == Lcm(a.d, b.d)
    IN  Q(a.n * (l \div a.d) + b.n * (l \div b.d), l)

RNeg(a) == [n |-> -a.n, d |-> a.d]

RSub(a, b) == RAdd(a, RNeg(b))

RMul(a, b) ==
    LET g1 == Gcd(Abs(a.n), b.d)
        g2 == Gcd(Abs(b.n), a.d)
    IN  Q((a.n \div g1) * (b.n \div g2), (a.d \div g2) * (b.d \div g1))

\* a / b for b # 0
RDiv(a, b) ==
    RMul(a, IF b.n < 0 THEN [n |-> -b.d, d |-> -b.n] ELSE [n |-> b.d, d |-> b.n])

\* p/q <= r/s for q, s > 0, by comparing the continued fractions, so that no
\* product is formed
RECURSIVE FracLeq(_, _, _, _)
FracLeq(p, q, r, s) ==
    LET a == p \div q
        b == r \div s
    IN  IF a # b THEN a < b
        ELSE IF p % q = 0 THEN TRUE
        ELSE IF r % s = 0 THEN FALSE
        ELSE FracLeq(s, r % s, q, p % q)

RLeq(a, b) == FracLeq(a.n, a.d, b.n, b.d)

RLt(a, b) == ~RLeq(b, a)

RECURSIVE RSum(_)
RSum(s) == IF s = << >> THEN R(0) ELSE RAdd(Head(s), RSum(Tail(s)))


-----------------------------------------------------------------------------
(* scipy.optimize.linprog(c, A_ub, b_ub, bounds = x >= 0, method='highs'). *)
(* A_ub is a sequence of rows, each a sequence of rationals; b_ub and c    *)
(* are sequences of rationals.                                             *)

RECURSIVE LcmDen(_)
LcmDen(s) == IF s = << >> THEN 1 ELSE Lcm(Head(s).d, LcmDen(Tail(s)))

RECURSIVE GcdAll(_)
GcdAll(s) == IF s = << >> THEN 0 ELSE Gcd(Head(s), GcdAll(Tail(s)))

\* a row a.x <= b over the integers, equivalent to the rational row
IntRow(row, rhs) ==
    LET l == LcmDen(Append(row, rhs))
        a == [j \in 1..Len(row) |-> row[j].n * (l \div row[j].d)]
        b == rhs.n * (l \div rhs.d)
        g == GcdAll(Append(a, b))
        k == IF g = 0 THEN 1 ELSE g
    IN  [a |-> [j \in 1..Len(a) |-> a[j] \div k], b |-> b \div k]

\* the objective over the integers (a positive multiple of c)
IntCost(c) ==
    LET l == LcmDen(c)
        a == [j \in 1..Len(c) |-> c[j].n * (l \div c[j].d)]
        g == GcdAll(a)
        k == IF g = 0 THEN 1 ELSE g
    IN  [j \in 1..Len(a) |-> a[j] \div k]

\* the rows of the polytope: the bounds -x_j <= 0, then A_ub x <= b_ub
Polytope(n, A, b) ==
    [i \in 1..(n + Len(A)) |->
        IF i <= n THEN [a |-> [j \in 1..n |-> IF j = i THEN -1 ELSE 0], b |-> 0]
        ELSE IntRow(A[i - n], b[i - n])]

\* the strictly increasing sequences of k numbers of 1..m
RECURSIVE Combos(_, _)
Combos(m, k) ==
    IF k = 0 THEN {<< >>}
    ELSE IF m < k THEN {}
    ELSE Combos(m - 1, k) \cup { Append(q, m) : q \in Combos(m - 1, k - 1) }

Minor(M, col) ==
    [i \in 1..(Len(M) - 1) |->
        [j \in 1..(Len(M) - 1) |-> M[i + 1][IF j < col THEN j ELSE j + 1]]]

RECURSIVE Det(_)
Det(M) ==
    IF Len(M) = 1 THEN M[1][1]
    ELSE IF Len(M) = 2 THEN M[1][1] * M[2][2] - M[1][2] * M[2][1]
    ELSE IF Len(M) = 3
    THEN M[1][1] * (M[2][2] * M[3][3] - M[2][3] * M[3][2])
         - M[1][2] * (M[2][1] * M[3][3] - M[2][3] * M[3][1])
         + M[1][3] * (M[2][1] * M[3][2] - M[2][2] * M[3][1])
    ELSE LET Term(j) == (IF j % 2 = 1 THEN 1 ELSE -1) * M[1][j] * Det(Minor(M, j))
             RECURSIVE Sum(_)
             Sum(j) == IF j = 0 THEN 0 ELSE Term(j) + Sum(j - 1)
         IN  Sum(Len(M))

RECURSIVE Dot(_, _)
Dot(a, v) == IF a = << >> THEN 0 ELSE Head(a) * Head(v) + Dot(Tail(a), Tail(v))

\* the point where the rows idx (n of them) hold with equality, as integer
\* numerators v over one positive denominator den; den = 0 when there is none
BasicPoint(P, idx, n) ==
    LET M  == [i \in 1..n |-> P[idx[i]].a]
        d  == Det(M)
        Mj(j) == [i \in 1..n |-> [k \in 1..n |-> IF k = j THEN P[idx[i]].b ELSE M[i][k]]]
        s  == IF d < 0 THEN -1 ELSE 1
        v  == [j \in 1..n |-> s * Det(Mj(j))]
        g  == GcdAll(Append(v, d))
    IN  IF d = 0 THEN [v |-> [j \in 1..n |-> 0], den |-> 0]
        ELSE [v |-> [j \in 1..n |-> v[j] \div g], den |-> (s * d) \div g]

\* a . v <= b * den, ten bits of v and den at a time, so that no product
\* leaves the 32 bits of the model's integers (|a[j]|, |b| < 2^16)
RECURSIVE WideLeq(_, _, _, _, _, _, _)
WideLeq(a, v, b, den, carry, k, lowzero) ==
    IF k = 0
    THEN LET u == Dot(a, v) - b * den + carry
         IN  u < 0 \/ (u = 0 /\ lowzero)
    ELSE LET t == Dot(a, [j \in 1..Len(v) |-> v[j] % 1024]) - b * (den % 1024) + carry
         IN  WideLeq(a, [j \in 1..Len(v) |-> v[j] \div 1024], b, den \div 1024,
                     t \div 1024, k - 1, lowzero /\ t % 1024 = 0)

FeasiblePoint(P, pt) ==
    /\ pt.den > 0
    /\ IF pt.den < 8192 /\ \A j \in 1..Len(pt.v) : Abs(pt.v[j]) < 8192
       THEN \A i \in 1..Len(P) : Dot(P[i].a, pt.v) <= P[i].b * pt.den
       ELSE \A i \in 1..Len(P) : WideLeq(P[i].a, pt.v, P[i].b, pt.den, 0, 3, TRUE)

Vertices(n, A, b) ==
    LET P == Polytope(n, A, b)
        pts == { BasicPoint(P, idx, n) : idx \in Combos(Len(P), n) }
    IN  { pt \in pts : FeasiblePoint(P, pt) }

\* cost of pt is at most that of qt
CostLeq(ci, pt, qt) == FracLeq(Dot(ci, pt.v), pt.den, Dot(ci, qt.v), qt.den)

RECURSIVE LexLeq(_, _)
LexLeq(u, w) ==
    IF u = << >> THEN TRUE
    ELSE IF RLt(Head(u), Head(w)) THEN TRUE
    ELSE IF RLt(Head(w), Head(u)) THEN FALSE
    ELSE LexLeq(Tail(u), Tail(w))

PointX(pt) == [j \in 1..Len(pt.v) |-> Q(pt.v[j], pt.den)]

\* the solver has no randomness: given the same problem it returns the same
\* optimal vertex, here the first of the optimal vertices in lexicographic
\* order
Linprog(c, A, b) ==
    LET n   == Len(c)
        V   == Vertices(n, A, b)
        ci  == IntCost(c)
        opt == { PointX(pt) : pt \in { p \in V : \A q \in V : CostLeq(ci, p, q) } }
    IN  IF V = {} THEN [success |-> FALSE, x |-> << >>]
        ELSE [success |-> TRUE, x |-> CHOOSE u \in opt : \A w \in opt : LexLeq(u, w)]

-----------------------------------------------------------------------------
(* Tables.  A table row is [nama, kategori, harga, nut]: nut maps each     *)
(* nutrient column the row has to its value.                               *)

NutKeys == <<"Protein (%)", "TDN (%)", "Ca (%)", "P (%)", "Mg (%)",
             "Fe (ppm)", "Cu (ppm)", "Zn (ppm)">>

NutKeySet == {NutKeys[i] : i \in 1..Len(NutKeys)}

MineralKeys == <<"Ca (%)", "P (%)", "Mg (%)", "Fe (ppm)", "Cu (ppm)", "Zn (ppm)">>

PpmKeys == {"Fe (ppm)", "Cu (ppm)", "Zn (ppm)"}

Nut(pr, tdn, ca, ph, mg, fe, cu, zn) ==
    [k \in {NutKeys[i] : i \in 1..Len(NutKeys)} |->
        CASE k = "Protein (%)" -> pr
          [] k = "TDN (%)"     -> tdn
          [] k = "Ca (%)"      -> ca
          [] k = "P (%)"       -> ph
          [] k = "Mg (%)"      -> mg
          [] k = "Fe (ppm)"    -> fe
          [] k = "Cu (ppm)"    -> cu
          [] OTHER             -> zn]

Pakan(nama, kategori, harga, nut) ==
    [nama |-> nama, kategori |-> kategori, harga |-> harga, nut |-> nut]

\* dict.get(key, default) and Series.get(key, default)
Get(f, k, default) == IF k \in DOMAIN f THEN f[k] ELSE default

\* df[df['Nama Pakan'] == feed].iloc[0]
Iloc0(df, feed) ==
    df[CHOOSE i \in 1..Len(df) :
          /\ df[i].nama = feed
          /\ \A j \in 1..(i - 1) : df[j].nama # feed]

\* feed in df['Nama Pakan'].values
InTable(df, feed) == \E i \in 1..Len(df) : df[i].nama = feed

Names(df) == [i \in 1..Len(df) |-> df[i].nama]

-----------------------------------------------------------------------------
(* Data the program is run on.  Feed and requirement tables are read from  *)
(* CSV files or edited by the user, so their cells are arbitrary numbers;  *)
(* the tables below are the ones explored.                                 *)

\* the catalog of the specification's scenario; A's profile is exactly the
\* maintenance requirement KebutuhanPokok below
TabelSkenario ==
    << Pakan("A", "Hijauan", R(1000),
             Nut(R(10), R(50), Q(45, 100), Q(35, 100), Q(16, 100), R(50), R(10), R(40))),
       Pakan("B", "Konsentrat", R(8000),
             Nut(R(42), R(75), Q(3, 10), Q(6, 10), Q(3, 10), R(120), R(15), R(50))) >>

\* a forage just below a 10 % protein requirement and a richer concentrate
TabelAmbang(harga) ==
    << Pakan("Rumput Lapang", "Hijauan", R(harga),
             Nut(Q(999, 100), R(60), Q(5, 10), Q(4, 10), Q(2, 10), R(49), R(10), R(40))),
       Pakan("Ampas Tahu", "Konsentrat", R(1100),
             Nut(R(20), R(70), Q(5, 10), Q(4, 10), Q(2, 10), R(120), R(15), R(50))) >>

HargaRumput == {549, 550}

FeedTables == {TabelSkenario} \cup {TabelAmbang(h) : h \in HargaRumput}

\* a feed table of one row
TabelTunggal == SubSeq(TabelSkenario, 1, 1)

\* a feed table of two rows with no trace mineral analysis
TabelDua ==
    << Pakan("Rumput Gajah", "Hijauan", R(1000),
             Nut(R(10), R(50), Q(45, 100), Q(35, 100), Q(16, 100), R(0), R(0), R(0))),
       Pakan("Bungkil Kelapa", "Konsentrat", R(1000),
             Nut(R(20), R(70), R(0), R(0), R(0), R(0), R(0), R(0))) >>

\* a mineral supplement table of one row
TabelMineral ==
    << Pakan("Mineral Mix", "Mineral", R(15000),
             Nut(R(0), R(0), R(5), R(2), R(1), R(100), R(20), R(50))) >>

\* a mineral supplement table whose one row is cheaper than every feed
TabelKapur ==
    << Pakan("Kapur", "Mineral", R(500),
             Nut(R(0), R(0), R(38), R(0), R(0), R(0), R(0), R(0))) >>

Kebutuhan(jenis, kategori, req) == [jenis |-> jenis, kategori |-> kategori, req |-> req]

KebutuhanKering ==
    Nut(R(12), R(60), Q(45, 100), Q(35, 100), Q(16, 100), R(50), R(10), R(40))

KebutuhanPokok ==
    Nut(R(10), R(50), Q(45, 100), Q(35, 100), Q(16, 100), R(50), R(10), R(40))

KebutuhanProteinTinggi ==
    Nut(R(50), R(60), Q(45, 100), Q(35, 100), Q(16, 100), R(50), R(10), R(40))

\* "Sapi Potong" / "Pedet (<6 bulan)" of the built-in requirements
KebutuhanPedet ==
    Nut(R(18), R(70), Q(70, 100), Q(45, 100), Q(10, 100), R(50), R(10), R(40))

\* "Domba Potong" / "Anak (<6 bulan)" of the built-in requirements
KebutuhanAnakDomba ==
    Nut(R(16), R(68), Q(60, 100), Q(40, 100), Q(10, 100), R(40), R(7), R(35))

\* kebutuhannutrisi.csv as read by load_nutrition_requirements; the file of
\* the sessions explored has rows for one species only
CsvKebutuhan ==
    [bentuk |-> "DataFrame",
     rows |-> << Kebutuhan("Sapi Potong", "Kering", KebutuhanKering),
                 Kebutuhan("Sapi Potong", "Pokok", KebutuhanPokok),
                 Kebutuhan("Sapi Potong", "Protein Tinggi", KebutuhanProteinTinggi) >>]

\* default_nutrition_requirements, used when the CSV file does not exist:
\* every species of the selection box has an entry
DictKebutuhan ==
    [bentuk |-> "dict",
     rows |-> << Kebutuhan("Sapi Potong", "Pedet (<6 bulan)", KebutuhanPedet),
                 Kebutuhan("Domba Potong", "Anak (<6 bulan)", KebutuhanAnakDomba) >>]

JenisHewan == {"Sapi Potong", "Domba Potong"}

\* the value of a selection box with no options
None == "None"

default_nutrition_requirement ==
    Nut(R(12), R(60), Q(40, 100), Q(25, 100), Q(10, 100), R(40), R(8), R(35))

EmptyDict == [k \in {} |-> R(0)]

Found(data, jenis, kategori) ==
    { i \in 1..Len(data.rows) :
        data.rows[i].jenis = jenis /\ data.rows[i].kategori = kategori }

get_nutrition_requirement(jenis, kategori, data) ==
    LET hit == Found(data, jenis, kategori)
        first == CHOOSE i \in hit : \A j \in hit : i <= j
    IN  IF data.bentuk = "DataFrame"
        THEN IF hit # {} THEN data.rows[first].req
             ELSE default_nutrition_requirement
        ELSE IF hit # {} THEN data.rows[first].req ELSE EmptyDict

\* kategori_list of the selection box for jenis
kategori_list(data, jenis) ==
    { data.rows[i].kategori : i \in { j \in 1..Len(data.rows) : data.rows[j].jenis = jenis } }

\* what the selection box over kategori_list can return: None without options
kategori_options(data, jenis) ==
    IF kategori_list(data, jenis) = {} THEN {None} ELSE kategori_list(data, jenis)

\* a selection box starts at its first option
kategori_awal(data, jenis) ==
    LET hit == { j \in 1..Len(data.rows) : data.rows[j].jenis = jenis }
    IN  IF hit = {} THEN None
        ELSE data.rows[CHOOSE i \in hit : \A j \in hit : i <= j].kategori

KategoriUmur == UNION { kategori_options(d, j) : d \in {CsvKebutuhan, DictKebutuhan}, j \in JenisHewan }

-----------------------------------------------------------------------------
(* Uploading a feed file.  An uploaded file is [cols, rows]: the columns   *)
(* the file has and its rows; the cells of a column the file lacks are not *)
(* read.                                                                   *)

\* an empty cell, read by pandas as NaN
NaN == [n |-> 0, d |-> 0]

\* a cell holding text where a number is expected
Teks == [n |-> 1, d |-> 0]

SemuaKolom == {"Nama Pakan", "Harga (Rp/kg)"} \cup NutKeySet

\* f"Pakan {i+1}"
NamaPakanKe(i) == IF i = 1 THEN "Pakan 1" ELSE IF i = 2 THEN "Pakan 2" ELSE "Pakan 3"

\* a missing required or mineral column is added with 0.0, a missing name
\* column with generated names
WithDefaults(U) ==
    [i \in 1..Len(U.rows) |->
        [nama     |-> IF "Nama Pakan" \in U.cols THEN U.rows[i].nama ELSE NamaPakanKe(i),
         kategori |-> U.rows[i].kategori,
         harga    |-> IF "Harga (Rp/kg)" \in U.cols THEN U.rows[i].harga ELSE R(0),
         nut      |-> [k \in NutKeySet |->
                         IF k \in U.cols THEN U.rows[i].nut[k] ELSE R(0)]]]

\* (column > 100).any() and (column < 0).any(): a comparison with NaN is False
Above100(x) == x.d # 0 /\ RLt(R(100), x)

Below0(x) == x.d # 0 /\ x.n < 0

validasi_data_pakan_extended(U) ==
    LET df == WithDefaults(U)
        rejected(pesan) == [valid |-> FALSE, df |-> << >>, pesan |-> pesan]
    IN  IF \E i \in 1..Len(df) :
              df[i].harga = Teks \/ \E k \in NutKeySet : df[i].nut[k] = Teks
        THEN rejected("Nilai numerik tidak valid")
        ELSE IF \E i \in 1..Len(df) : Above100(df[i].nut["Protein (%)"])
        THEN rejected("Protein tidak boleh > 100%")
        ELSE IF \E i \in 1..Len(df) : Above100(df[i].nut["TDN (%)"])
        THEN rejected("TDN tidak boleh > 100%")
        ELSE IF \E i \in 1..Len(df) : Below0(df[i].harga)
        THEN rejected("Harga tidak boleh negatif")
        ELSE IF \E i, j \in 1..Len(df) : i < j /\ df[i].nama = df[j].nama
        THEN rejected("Terdapat duplikasi nama pakan")
        ELSE [valid |-> TRUE, df |-> df, pesan |-> ""]

\* the rows explored: prices, protein, TDN, Ca and Fe inside and outside
\* their ranges, an empty protein cell and a protein cell holding text
BarisUnggah ==
    { Pakan("X", "Hijauan", h,
            Nut(pr, tdn, ca, Q(35, 100), Q(16, 100), fe, R(10), R(40))) :
        h \in {R(-1), R(1000)}, pr \in {R(-5), R(12), R(101), NaN, Teks},
        tdn \in {R(60), R(101)}, ca \in {Q(1, 2), R(150)}, fe \in {R(50), R(-5)} }

KolomHilang == {{}, {"Ca (%)"}, {"Harga (Rp/kg)"}, {"Nama Pakan"}}

\* the files explored: one row with or without a column, two rows with
\* the same or with different names, and one row that bears the name of a
\* row of the mineral supplement table
FileUnggah ==
    { [cols |-> SemuaKolom \ D, rows |-> <<r>>] : r \in BarisUnggah, D \in KolomHilang }
    \cup { [cols |-> SemuaKolom, rows |-> <<r, [r EXCEPT !.nama = nama]>>] :
             r \in {Pakan("X", "Hijauan", R(1000), KebutuhanKering)}, nama \in {"X", "Y"} }
    \cup { [cols |-> SemuaKolom,
            rows |-> <<Pakan("Mineral Mix", "Konsentrat", R(1000), KebutuhanKering)>>] }

-----------------------------------------------------------------------------
(* State of one session of the script.                                     *)

VARIABLES
    version,                \* "v1": src/versi/v1ransumruminansia.py, "main": src/ransumruminansia.py
    df_pakan,               \* feed table
    mineral_df,             \* mineral supplement table
    nutrition_requirements, \* requirement data, a DataFrame or a nested dict
    jenis_hewan,
    kategori_umur,
    nutrient_req,           \* requirement of the selected animal
    available_feeds,        \* selected feed names
    available_minerals,     \* selected mineral supplement names
    min_amount,
    max_amount,
    use_ratio_constraint,
    min_hijauan,
    min_konsentrat,
    include,                \* the minerals whose include_* box is ticked
    c,
    A_ub,
    b_ub,
    row_key,                \* which constraint each row of A_ub was built for
    result,                 \* what linprog returned in this run of the script
    out,                    \* what this run of the script reported
    prev,                   \* the report of the solve before, for comparison
    base_feeds,             \* tab "Analisis Kebutuhan": feeds of the base ration
    base_feed_amounts,      \* kg of each feed of the base ration
    selected_minerals,      \* supplements offered to the analysis
    analisis                \* what "Analisis Mineral" reported in this run

inputs == <<version, df_pakan, mineral_df, nutrition_requirements, jenis_hewan,
            kategori_umur, nutrient_req, available_feeds, available_minerals,
            min_amount, max_amount, use_ratio_constraint, min_hijauan,
            min_konsentrat, include>>

solve_state == <<c, A_ub, b_ub, row_key, result, out>>

tab_mineral == <<base_feeds, base_feed_amounts, selected_minerals>>

vars == <<inputs, solve_state, prev, tab_mineral, analisis>>

\* bound of the model: amounts explored besides the widgets' defaults
MaxKg == 2

\* value= of the number_input widgets
DefaultMinAmount == 5

DefaultMaxAmount == 10

\* value= of the proportion sliders
DefaultMinHijauan == 40

DefaultMinKonsentrat == 20

AmountChoices ==
    ((1..MaxKg) \X (1..MaxKg)) \cup {<<DefaultMinAmount, DefaultMaxAmount>>}

\* slider settings explored: the defaults and one whose sum exceeds 100
RatioChoices == {<<DefaultMinHijauan, DefaultMinKonsentrat>>, <<60, 50>>}

DefaultInclude == {"Ca (%)", "P (%)", "Mg (%)"}

IncludeChoices == {DefaultInclude, {}, {"Fe (ppm)"}}

\* default= of a multiselect: the first k names of the table
FirstNames(df, k) == [i \in 1..(IF Len(df) < k THEN Len(df) ELSE k) |-> df[i].nama]

RECURSIVE SubSeqOn(_, _)
SubSeqOn(names, S) ==
    IF names = << >> THEN << >>
    ELSE (IF Len(names) \in S THEN SubSeqOn(SubSeq(names, 1, Len(names) - 1), S) \o <<names[Len(names)]>>
          ELSE SubSeqOn(SubSeq(names, 1, Len(names) - 1), S))

\* what a multiselect over the table can hold (in table order)
Selections(df) == { SubSeqOn(Names(df), S) : S \in SUBSET (1..Len(df)) }

Unbound == [bound |-> FALSE, success |-> FALSE, x |-> << >>]

NoOut ==
    [handler |-> "none", status |-> "NONE", feeds_used |-> << >>,
     amounts_used |-> << >>, total_amount |-> R(0), total_cost |-> R(0),
     realized |-> EmptyDict, shown |-> {}, saran |-> EmptyDict]

NoPrev == [handler |-> "none", status |-> "NONE", total_cost |-> R(0), df |-> << >>]

Snapshot == 
    IF out.handler = "none" THEN prev
    ELSE [handler |-> out.handler, status |-> out.status,
          total_cost |-> out.total_cost, df |-> df_pakan]

NoAnalisis ==
    [status |-> "NONE", base |-> EmptyDict, req |-> EmptyDict, kekurangan |-> {},
     recommendations |-> << >>, new |-> EmptyDict]

\* the widgets of the tab "Analisis Kebutuhan" keep their values and the
\* run reports no analysis
TabAnalisisKosong ==
    /\ UNCHANGED tab_mineral
    /\ analisis' = NoAnalisis

\* a rerun of the script starts with nothing built or solved
FreshRun ==
    /\ c' = << >>
    /\ A_ub' = << >>
    /\ b_ub' = << >>
    /\ row_key' = << >>
    /\ result' = Unbound
    /\ out' = NoOut
    /\ analisis' = NoAnalisis

\* the widgets' defaults and nothing solved
MulaiWidget ==
    /\ jenis_hewan = "Sapi Potong"
    /\ kategori_umur = kategori_awal(nutrition_requirements, jenis_hewan)
    /\ nutrient_req = get_nutrition_requirement(jenis_hewan, kategori_umur, nutrition_requirements)
    /\ available_feeds = FirstNames(df_pakan, 3)
    /\ available_minerals = FirstNames(mineral_df, 2)
    /\ min_amount = DefaultMinAmount
    /\ max_amount = DefaultMaxAmount
    /\ use_ratio_constraint = FALSE
    /\ min_hijauan = DefaultMinHijauan
    /\ min_konsentrat = DefaultMinKonsentrat
    /\ include = DefaultInclude
    /\ c = << >>
    /\ A_ub = << >>
    /\ b_ub = << >>
    /\ row_key = << >>
    /\ result = Unbound
    /\ out = NoOut
    /\ prev = NoPrev
    /\ base_feeds = << >>
    /\ base_feed_amounts = EmptyDict
    /\ selected_minerals = Names(mineral_df)
    /\ analisis = NoAnalisis

Mulai ==
    /\ mineral_df = TabelMineral
    /\ MulaiWidget

Init ==
    /\ \E s \in ({"v1"} \X {TabelSkenario, TabelAmbang(550)} \X {CsvKebutuhan})
                  \cup ({"main"} \X {TabelTunggal, TabelDua} \X {CsvKebutuhan, DictKebutuhan}) :
          version = s[1] /\ df_pakan = s[2] /\ nutrition_requirements = s[3]
    /\ Mulai

-----------------------------------------------------------------------------
(* Widgets.  Any change of a widget reruns the script with no button       *)
(* pressed, so nothing of the last solve stays on the page.  The           *)
(* proportion sliders belong to the tab "Optimasi Standar" and the mineral *)
(* selection to the tab "Optimasi dengan Mineral"; the sessions explored   *)
(* leave one of the two groups at its defaults.                            *)

RatioDefault ==
    /\ ~use_ratio_constraint
    /\ min_hijauan = DefaultMinHijauan
    /\ min_konsentrat = DefaultMinKonsentrat

MineralDefault ==
    /\ include = DefaultInclude
    /\ available_minerals = FirstNames(mineral_df, 2)

PilihHewan(jenis, kategori) ==
    /\ kategori \in kategori_options(nutrition_requirements, jenis)
    /\ <<jenis, kategori>> # <<jenis_hewan, kategori_umur>>
    /\ jenis_hewan' = jenis
    /\ kategori_umur' = kategori
    /\ nutrient_req' = get_nutrition_requirement(jenis, kategori, nutrition_requirements)
    /\ FreshRun
    /\ UNCHANGED tab_mineral
    /\ prev' = NoPrev
    /\ UNCHANGED <<version, df_pakan, mineral_df, nutrition_requirements,
                   available_feeds, available_minerals, min_amount, max_amount,
                   use_ratio_constraint, min_hijauan, min_konsentrat, include>>

PilihPakan(sel) ==
    /\ sel \in Selections(df_pakan)
    /\ sel # available_feeds
    /\ available_feeds' = sel
    /\ FreshRun
    /\ UNCHANGED tab_mineral
    /\ prev' = NoPrev
    /\ UNCHANGED <<version, df_pakan, mineral_df, nutrition_requirements, jenis_hewan,
                   kategori_umur, nutrient_req, available_minerals, min_amount,
                   max_amount, use_ratio_constraint, min_hijauan, min_konsentrat,
                   include>>

PilihMineral(sel) ==
    /\ sel \in Selections(mineral_df)
    /\ sel # available_minerals
    /\ version = "v1" => RatioDefault
    /\ available_minerals' = sel
    /\ FreshRun
    /\ UNCHANGED tab_mineral
    /\ prev' = NoPrev
    /\ UNCHANGED <<version, df_pakan, mineral_df, nutrition_requirements, jenis_hewan,
                   kategori_umur, nutrient_req, available_feeds, min_amount,
                   max_amount, use_ratio_constraint, min_hijauan, min_konsentrat,
                   include>>

AturJumlah(lo, hi) ==
    /\ <<lo, hi>> \in AmountChoices
    /\ <<lo, hi>> # <<min_amount, max_amount>>
    /\ min_amount' = lo
    /\ max_amount' = hi
    /\ FreshRun
    /\ UNCHANGED tab_mineral
    /\ prev' = NoPrev
    /\ UNCHANGED <<version, df_pakan, mineral_df, nutrition_requirements, jenis_hewan,
                   kategori_umur, nutrient_req, available_feeds, available_minerals,
                   use_ratio_constraint, min_hijauan, min_konsentrat, include>>

AturProporsi(on, hijauan, konsentrat) ==
    /\ version = "v1"
    /\ MineralDefault
    /\ IF on THEN <<hijauan, konsentrat>> \in RatioChoices
       ELSE <<hijauan, konsentrat>> = <<DefaultMinHijauan, DefaultMinKonsentrat>>
    /\ <<on, hijauan, konsentrat>> # <<use_ratio_constraint, min_hijauan, min_konsentrat>>
    /\ use_ratio_constraint' = on
    /\ min_hijauan' = hijauan
    /\ min_konsentrat' = konsentrat
    /\ FreshRun
    /\ UNCHANGED tab_mineral
    /\ prev' = NoPrev
    /\ UNCHANGED <<version, df_pakan, mineral_df, nutrition_requirements, jenis_hewan,
                   kategori_umur, nutrient_req, available_feeds, available_minerals,
                   min_amount, max_amount, include>>

PilihInclude(inc) ==
    /\ version = "v1"
    /\ RatioDefault
    /\ inc \in IncludeChoices
    /\ inc # include
    /\ include' = inc
    /\ FreshRun
    /\ UNCHANGED tab_mineral
    /\ prev' = NoPrev
    /\ UNCHANGED <<version, df_pakan, mineral_df, nutrition_requirements, jenis_hewan,
                   kategori_umur, nutrient_req, available_feeds, available_minerals,
                   min_amount, max_amount, use_ratio_constraint, min_hijauan,
                   min_konsentrat>>

\* the user edits prices in the feed table; names and nutrient values stay
SamaSelainHarga(T, U) ==
    /\ Len(T) = Len(U)
    /\ \A i \in 1..Len(T) :
          /\ T[i].nama = U[i].nama
          /\ T[i].kategori = U[i].kategori
          /\ T[i].nut = U[i].nut

UbahHarga(T) ==
    /\ T \in FeedTables
    /\ T # df_pakan
    /\ SamaSelainHarga(T, df_pakan)
    /\ df_pakan' = T
    /\ FreshRun
    /\ UNCHANGED tab_mineral
    /\ prev' = Snapshot
    /\ UNCHANGED <<version, mineral_df, nutrition_requirements, jenis_hewan,
                   kategori_umur, nutrient_req, available_feeds, available_minerals,
                   min_amount, max_amount, use_ratio_constraint, min_hijauan,
                   min_konsentrat, include>>

-----------------------------------------------------------------------------
(* Building the linear program.  A labelled row is [key, coef, rhs].       *)

CostVector(datas) == [i \in 1..Len(datas) |-> datas[i].harga]

\* a handler that went on from the cost vector of the run before
c_sisa == c

\* c = []: the handler starts from an empty cost vector
c_awal == << >>

\* linprog raises ValueError when a row of A_ub has not one column per cost
ValueError(cost, A) == \E i \in 1..Len(A) : Len(A[i]) # Len(cost)

\* a row whose two sides lost their minus signs
PercentRowTanpaNegasi(key, datas, required, lo) ==
    [key  |-> key,
     coef |-> [i \in 1..Len(datas) |-> datas[i].nut[key]],
     rhs  |-> RMul(required, R(lo))]

\* a minimum row whose right-hand side is taken at the upper bound
PercentRowDariMaks(key, datas, required, lo) ==
    [key  |-> key,
     coef |-> [i \in 1..Len(datas) |-> RNeg(datas[i].nut[key])],
     rhs  |-> RMul(RNeg(required), R(max_amount))]

\* -feed_data[key] per feed; -required * min_amount
PercentRow(key, datas, required, lo) ==
    [key  |-> key,
     coef |-> [i \in 1..Len(datas) |-> RNeg(datas[i].nut[key])],
     rhs  |-> RMul(RNeg(required), R(lo))]

\* a proportion row that asks for no share at all
RatioRowTanpaPersen(kategori, pct, datas) ==
    [key  |-> kategori,
     coef |-> [i \in 1..Len(datas) |->
                 IF datas[i].kategori = kategori THEN R(-1) ELSE R(0)],
     rhs  |-> R(0)]

\* a proportion row with the coefficients of members and of the others swapped
RatioRowTerbalik(kategori, pct, datas) ==
    [key  |-> kategori,
     coef |-> [i \in 1..Len(datas) |->
                 IF datas[i].kategori = kategori THEN Q(pct, 100)
                 ELSE RAdd(R(-1), Q(pct, 100))],
     rhs  |-> R(0)]

\* -1 + pct/100 for the feeds of the category, pct/100 for the others; 0
RatioRow(kategori, pct, datas) ==
    [key  |-> kategori,
     coef |-> [i \in 1..Len(datas) |->
                 IF datas[i].kategori = kategori THEN RAdd(R(-1), Q(pct, 100))
                 ELSE Q(pct, 100)],
     rhs  |-> R(0)]

TotalRows(n, lo, hi) ==
    << [key |-> "total_min", coef |-> [i \in 1..n |-> R(-1)], rhs |-> R(-lo)],
       [key |-> "total_max", coef |-> [i \in 1..n |-> R(1)], rhs |-> R(hi)] >>

Coefs(rows) == [i \in 1..Len(rows) |-> rows[i].coef]

Rhs(rows) == [i \in 1..Len(rows) |-> rows[i].rhs]

Keys(rows) == [i \in 1..Len(rows) |-> rows[i].key]

\* Optimasi Standar: feed_data of each selected feed
StandarDatas == [i \in 1..Len(available_feeds) |-> Iloc0(df_pakan, available_feeds[i])]

StandarRows(datas) ==
    << PercentRow("Protein (%)", datas, Get(nutrient_req, "Protein (%)", R(0)), min_amount),
       PercentRow("TDN (%)", datas, Get(nutrient_req, "TDN (%)", R(0)), min_amount) >>
    \o (IF use_ratio_constraint /\ min_hijauan > 0
        THEN <<RatioRow("Hijauan", min_hijauan, datas)>> ELSE << >>)
    \o (IF use_ratio_constraint /\ min_konsentrat > 0
        THEN <<RatioRow("Konsentrat", min_konsentrat, datas)>> ELSE << >>)
    \o TotalRows(Len(datas), min_amount, max_amount)

-----------------------------------------------------------------------------
(* Reading the solver's answer (v1).                                       *)

\* an interpreter that keeps only amounts above one kilogram
ThresholdSatuKg == Q(1, 1)

\* if result.x[i] > 0.001
Threshold == Q(1, 1000)

Kept(x) == { i \in 1..Len(x) : RLt(Threshold, x[i]) }

\* the keys of optimized_amounts in insertion order
RECURSIVE FeedsUsed(_, _, _)
FeedsUsed(feeds, x, i) ==
    IF i > Len(feeds) THEN << >>
    ELSE IF i \in Kept(x) /\ \A j \in Kept(x) : j < i => feeds[j] # feeds[i]
         THEN <<feeds[i]>> \o FeedsUsed(feeds, x, i + 1)
         ELSE FeedsUsed(feeds, x, i + 1)

\* optimized_amounts[feed]: the last assignment under that key
AmountOf(feeds, x, feed) ==
    x[CHOOSE i \in Kept(x) :
         feeds[i] = feed /\ \A j \in Kept(x) : feeds[j] = feed => j <= i]

\* sum(amounts * values) with values[k] the column's value of feeds_used[k]
WeightedSum(amounts, values) ==
    RSum([k \in 1..Len(amounts) |-> RMul(amounts[k], values[k])])

ReportV1(handler, feeds, x, used_datas, columns) ==
    LET feeds_used   == FeedsUsed(feeds, x, 1)
        amounts_used == [k \in 1..Len(feeds_used) |-> AmountOf(feeds, x, feeds_used[k])]
        total_amount == RSum(amounts_used)
        total_cost   == WeightedSum(amounts_used,
                            [k \in 1..Len(feeds_used) |-> used_datas[feeds_used[k]].harga])
    IN  IF total_amount.n = 0
        THEN [NoOut EXCEPT !.handler = handler, !.status = "EXCEPTION",
                           !.shown = {"success"}]
        ELSE [handler |-> handler, status |-> "OPTIMAL", shown |-> {"success"},
              saran |-> EmptyDict,
              feeds_used |-> feeds_used, amounts_used |-> amounts_used,
              total_amount |-> total_amount, total_cost |-> total_cost,
              realized |-> [col \in columns |->
                  RDiv(WeightedSum(amounts_used,
                         [k \in 1..Len(feeds_used) |->
                             Get(used_datas[feeds_used[k]].nut, col, R(0))]),
                       total_amount)]]

\* st.error and st.warning of the else branch of result.success
Failed(handler) ==
    [NoOut EXCEPT !.handler = handler, !.status = "INFEASIBLE",
                  !.shown = {"error", "warning"}]

Crashed(handler) ==
    [NoOut EXCEPT !.handler = handler, !.status = "EXCEPTION", !.shown = {"error"}]

\* an exception that nothing catches ends the run
Raised(handler) == [NoOut EXCEPT !.handler = handler, !.status = "EXCEPTION"]

\* linprog raises ValueError for a cost or a coefficient that is NaN
NaNIn(datas, keys) ==
    \E i \in 1..Len(datas) :
        \/ datas[i].harga.d = 0
        \/ \E k \in keys \cap DOMAIN datas[i].nut : datas[i].nut[k].d = 0

\* the button was pressed and its if statement did not run
Pressed(handler) == [NoOut EXCEPT !.handler = handler]

NothingBuilt ==
    /\ c' = << >>
    /\ A_ub' = << >>
    /\ b_ub' = << >>
    /\ row_key' = << >>
    /\ result' = Unbound

\* a handler that wrote the price column of the feed table while reading it
HargaDitimpa ==
    /\ df_pakan' = [i \in 1..Len(df_pakan) |-> [df_pakan[i] EXCEPT !.harga = R(0)]]
    /\ UNCHANGED <<version, mineral_df, nutrition_requirements, jenis_hewan,
                   kategori_umur, nutrient_req, available_feeds, available_minerals,
                   min_amount, max_amount, use_ratio_constraint, min_hijauan,
                   min_konsentrat, include>>

\* The handlers read the tables, the requirement and the widgets and assign
\* to none of them; linprog copies c, A_ub and b_ub into arrays of its own.
InputsKept == UNCHANGED inputs

\* the button "Optimasi Ransum" of the tab Optimasi Standar
SolveStandar ==
    /\ version = "v1"
    /\ IF available_feeds = << >> THEN NothingBuilt /\ out' = Pressed("Standar") ELSE
       IF NaNIn(StandarDatas, {"Protein (%)", "TDN (%)"})
       THEN NothingBuilt /\ out' = Raised("Standar") ELSE
       LET datas == StandarDatas
           rows  == StandarRows(datas)
           cost  == c_awal \o CostVector(datas)
           used  == [f \in {available_feeds[i] : i \in 1..Len(available_feeds)} |->
                        Iloc0(df_pakan, f)]
       IN  /\ c' = cost
           /\ A_ub' = Coefs(rows)
           /\ b_ub' = Rhs(rows)
           /\ row_key' = Keys(rows)
           /\ IF \/ Len(cost) = 0 \/ Len(Coefs(rows)) # Len(Rhs(rows))
                 \/ ValueError(cost, Coefs(rows))
              THEN /\ result' = Unbound
                   /\ out' = Crashed("Standar")
              ELSE \E res \in {Linprog(cost, Coefs(rows), Rhs(rows))} :
                   /\ result' = [bound |-> TRUE, success |-> res.success, x |-> res.x]
                   /\ out' = IF res.success
                             THEN ReportV1("Standar", available_feeds, res.x, used,
                                           {"Protein (%)", "TDN (%)"})
                             ELSE Failed("Standar")
    /\ InputsKept

-----------------------------------------------------------------------------
(* Optimasi dengan Mineral (v1) and Optimalisasi Otomatis (main): feeds    *)
(* and mineral supplements in one problem.                                 *)

all_available_feeds == available_feeds \o available_minerals

\* feed_data of a name: the feed table first, otherwise the mineral table
FeedData(feed) ==
    IF InTable(df_pakan, feed) THEN Iloc0(df_pakan, feed) ELSE Iloc0(mineral_df, feed)

MineralDatas == [i \in 1..Len(all_available_feeds) |-> FeedData(all_available_feeds[i])]

\* v1: -(feed_data[key] / 10000), 0 for a missing column; -(required / 10000) * min_amount
PpmRow(key, datas, required, lo) ==
    [key  |-> key,
     coef |-> [i \in 1..Len(datas) |->
                 RNeg(IF key \in DOMAIN datas[i].nut
                      THEN RDiv(datas[i].nut[key], R(10000)) ELSE R(0))],
     rhs  |-> RMul(RNeg(RDiv(required, R(10000))), R(lo))]

\* -0.7 for the regular feeds, 0.3 for the others; 0
FeedProportionRow(feeds, all) ==
    [key  |-> "feed_proportion",
     coef |-> [i \in 1..Len(all) |->
                 IF \E j \in 1..Len(feeds) : feeds[j] = all[i] THEN Q(-7, 10) ELSE Q(3, 10)],
     rhs  |-> R(0)]

\* a builder that adds the row of every mineral, ticked or not
SemuaMineralRows(keys, datas) ==
    [k \in 1..Len(keys) |->
        IF keys[k] \in PpmKeys
        THEN PpmRow(keys[k], datas, Get(nutrient_req, keys[k], R(0)), min_amount)
        ELSE PercentRow(keys[k], datas, Get(nutrient_req, keys[k], R(0)), min_amount)]

\* the rows of the ticked minerals, in the order of the if statements
RECURSIVE IncludedRows(_, _)
IncludedRows(keys, datas) ==
    IF keys = << >> THEN << >>
    ELSE (IF Head(keys) \notin include THEN << >>
          ELSE IF Head(keys) \in PpmKeys
               THEN <<PpmRow(Head(keys), datas, Get(nutrient_req, Head(keys), R(0)), min_amount)>>
               ELSE <<PercentRow(Head(keys), datas, Get(nutrient_req, Head(keys), R(0)), min_amount)>>)
         \o IncludedRows(Tail(keys), datas)

MineralRows(datas) ==
    << PercentRow("Protein (%)", datas, Get(nutrient_req, "Protein (%)", R(0)), min_amount),
       PercentRow("TDN (%)", datas, Get(nutrient_req, "TDN (%)", R(0)), min_amount) >>
    \o IncludedRows(MineralKeys, datas)
    \o TotalRows(Len(datas), min_amount, max_amount)
    \o (IF Len(available_feeds) > 0 /\ Len(all_available_feeds) > Len(available_feeds)
        THEN <<FeedProportionRow(available_feeds, all_available_feeds)>> ELSE << >>)

\* the button "Optimasi Ransum dengan Mineral"
SolveMineral ==
    /\ version = "v1"
    /\ IF all_available_feeds = << >> THEN NothingBuilt /\ out' = Pressed("Mineral") ELSE
       IF NaNIn(MineralDatas, {"Protein (%)", "TDN (%)"} \cup include)
       THEN NothingBuilt /\ out' = Crashed("Mineral") ELSE
       LET datas == MineralDatas
           rows  == MineralRows(datas)
           cost  == c_awal \o CostVector(datas)
           used  == [f \in {all_available_feeds[i] : i \in 1..Len(all_available_feeds)} |->
                        FeedData(f)]
       IN  /\ c' = cost
           /\ A_ub' = Coefs(rows)
           /\ b_ub' = Rhs(rows)
           /\ row_key' = Keys(rows)
           /\ IF Len(Coefs(rows)) # Len(Rhs(rows)) \/ ValueError(cost, Coefs(rows))
              THEN /\ result' = Unbound
                   /\ out' = Crashed("Mineral")
              ELSE \E res \in {Linprog(cost, Coefs(rows), Rhs(rows))} :
                   /\ result' = [bound |-> TRUE, success |-> res.success, x |-> res.x]
                   /\ out' = IF res.success
                             THEN ReportV1("Mineral", all_available_feeds, res.x, used,
                                           {"Protein (%)", "TDN (%)"} \cup include)
                             ELSE Failed("Mineral")
    /\ InputsKept

\* main: -feed_data.get(mineral, 0) for every mineral; the right-hand side
\* is -required * min_amount, divided by 1000 when the key holds "ppm"
OtomatisMineralRow(key, datas, required, lo) ==
    [key  |-> key,
     coef |-> [i \in 1..Len(datas) |-> RNeg(Get(datas[i].nut, key, R(0)))],
     rhs  |-> IF key \in PpmKeys
              THEN RDiv(RMul(RNeg(required), R(lo)), R(1000))
              ELSE RMul(RNeg(required), R(lo))]

OtomatisRows(datas) ==
    << PercentRow("Protein (%)", datas, Get(nutrient_req, "Protein (%)", R(0)), min_amount),
       PercentRow("TDN (%)", datas, Get(nutrient_req, "TDN (%)", R(0)), min_amount) >>
    \o [k \in 1..Len(MineralKeys) |->
           OtomatisMineralRow(MineralKeys[k], datas,
                              Get(nutrient_req, MineralKeys[k], R(0)), min_amount)]
    \o TotalRows(Len(datas), min_amount, max_amount)

\* c skips a name found in neither table
OtomatisCost ==
    LET known == SelectSeq(all_available_feeds,
                           LAMBDA f : InTable(df_pakan, f) \/ InTable(mineral_df, f))
    IN  c_awal \o [i \in 1..Len(known) |-> FeedData(known[i]).harga]

\* df[~df['Nama Pakan'].isin(names)]
NotIsin(df, names) ==
    SelectSeq(df, LAMBDA r : ~(\E i \in 1..Len(names) : names[i] = r.nama))

\* a sorts before b when sorting by key in descending order (NaN last)
Lebih(a, b, key) ==
    /\ a.nut[key].d # 0
    /\ b.nut[key].d = 0 \/ RLt(b.nut[key], a.nut[key])

\* df.sort_values(key, ascending=False); rows of equal value keep their order
RECURSIVE sort_values(_, _)
sort_values(df, key) ==
    IF df = << >> THEN << >>
    ELSE LET rest  == sort_values(SubSeq(df, 1, Len(df) - 1), key)
             last  == df[Len(df)]
             front == Cardinality({i \in 1..Len(rest) : ~Lebih(last, rest[i], key)})
         IN  SubSeq(rest, 1, front) \o <<last>> \o SubSeq(rest, front + 1, Len(rest))

head(df, n) == SubSeq(df, 1, IF Len(df) < n THEN Len(df) ELSE n)

\* avg < required * 1.1: the two unused rows of df_pakan richest in key
Alternatif(key, avg, required) ==
    IF RLt(avg, RMul(required, Q(11, 10)))
    THEN Names(head(sort_values(NotIsin(df_pakan, available_feeds), key), 2))
    ELSE << >>

\* The statement "if result.success:" of main is followed at once by
\* "else:" and, after the block of that else, by a second "else:".  The
\* source is read both ways: the if has an empty body and the first else
\* is its failure branch ("else_1220"), or the first else is a stray line,
\* the block after it is the success branch and the second else is the
\* failure branch ("else_1336").
CabangOtomatis == {"else_1220", "else_1336"}

\* else_1220, success: no statement.  else_1220, failure: st.error,
\* st.success, st.error, return.  else_1336, success: st.error, st.success,
\* then pd.DataFrame(opt_data) over columns of unequal length raises.
\* else_1336, failure: st.error, then avg_protein is read unassigned.
\* No path arrives at the suggestions of lines 1452-1465 (Alternatif), so
\* the field saran stays empty.
HasilOtomatis(cabang, success) ==
    IF cabang = "else_1220"
    THEN IF success THEN [NoOut EXCEPT !.handler = "Otomatis", !.status = "SILENT"]
         ELSE [NoOut EXCEPT !.handler = "Otomatis", !.status = "INFEASIBLE",
                            !.shown = {"error", "success"}]
    ELSE IF success
         THEN [NoOut EXCEPT !.handler = "Otomatis", !.status = "EXCEPTION",
                            !.shown = {"error", "success"}]
         ELSE [NoOut EXCEPT !.handler = "Otomatis", !.status = "EXCEPTION",
                            !.shown = {"error"}]

\* the button "Optimasi Ransum" of the mode Optimalisasi Otomatis
SolveOtomatis ==
    /\ version = "main"
    /\ IF all_available_feeds = << >> THEN NothingBuilt /\ out' = Pressed("Otomatis") ELSE
       LET datas == MineralDatas
           rows  == OtomatisRows(datas)
           cost  == OtomatisCost
       IN  /\ c' = cost
           /\ A_ub' = Coefs(rows)
           /\ b_ub' = Rhs(rows)
           /\ row_key' = Keys(rows)
           /\ IF ValueError(cost, Coefs(rows))
              THEN /\ result' = Unbound
                   /\ out' = Crashed("Otomatis")
              ELSE \E res \in {Linprog(cost, Coefs(rows), Rhs(rows))} :
                   /\ result' = [bound |-> TRUE, success |-> res.success, x |-> res.x]
                   /\ \E cabang \in CabangOtomatis :
                         out' = HasilOtomatis(cabang, res.success)
    /\ InputsKept

-----------------------------------------------------------------------------
(* One session: widgets are changed and buttons pressed in any order.      *)

OptimasiStandar == SolveStandar /\ UNCHANGED prev /\ TabAnalisisKosong

OptimasiMineral == SolveMineral /\ UNCHANGED prev /\ TabAnalisisKosong

OptimalisasiOtomatis == SolveOtomatis /\ UNCHANGED prev /\ TabAnalisisKosong

Next ==
    \/ \E j \in JenisHewan, k \in KategoriUmur : PilihHewan(j, k)
    \/ \E sel \in Selections(df_pakan) : PilihPakan(sel)
    \/ \E sel \in Selections(mineral_df) : PilihMineral(sel)
    \/ \E a \in AmountChoices : AturJumlah(a[1], a[2])
    \/ \E on \in BOOLEAN, r \in RatioChoices : AturProporsi(on, r[1], r[2])
    \/ \E inc \in IncludeChoices : PilihInclude(inc)
    \/ OptimasiStandar
    \/ OptimasiMineral
    \/ OptimalisasiOtomatis

Spec == Init /\ [][Next]_vars

-----------------------------------------------------------------------------
(* Sessions of v1 in which the tab Optimasi Standar is solved again and    *)
(* again: the button pressed twice on the same inputs, or pressed again    *)
(* after a price of the feed table was edited.  prev keeps the report of   *)
(* the solve before.                                                       *)

OptimasiStandarUlang == SolveStandar /\ prev' = Snapshot /\ TabAnalisisKosong

InitUlang ==
    /\ version = "v1"
    /\ df_pakan \in FeedTables
    /\ nutrition_requirements = CsvKebutuhan
    /\ Mulai

NextUlang ==
    \/ \E j \in JenisHewan, k \in KategoriUmur : PilihHewan(j, k)
    \/ \E sel \in Selections(df_pakan) : PilihPakan(sel)
    \/ \E a \in AmountChoices : AturJumlah(a[1], a[2])
    \/ \E T \in FeedTables : UbahHarga(T)
    \/ OptimasiStandarUlang

SpecUlang == InitUlang /\ [][NextUlang]_vars

-----------------------------------------------------------------------------
(* Sessions of v1 in which feed files are uploaded and the uploaded table  *)
(* is optimised together with a mineral supplement.                        *)

\* the file uploader: a file that passes the validation replaces the feed
\* table, any other leaves the loaded table in use
Unggah(U) ==
    /\ version = "v1"
    /\ U \in FileUnggah
    /\ LET v == validasi_data_pakan_extended(U)
       IN  /\ df_pakan' = IF v.valid THEN v.df ELSE TabelSkenario
           /\ out' = IF v.valid
                     THEN [NoOut EXCEPT !.handler = "Unggah", !.status = "VALID",
                                        !.shown = {"success"}]
                     ELSE [NoOut EXCEPT !.handler = "Unggah", !.status = "INVALID",
                                        !.shown = {"error", "warning"}]
    /\ available_feeds' = FirstNames(df_pakan', 3)
    /\ NothingBuilt
    /\ prev' = NoPrev
    /\ TabAnalisisKosong
    /\ UNCHANGED <<version, mineral_df, nutrition_requirements, jenis_hewan,
                   kategori_umur, nutrient_req, available_minerals, min_amount,
                   max_amount, use_ratio_constraint, min_hijauan, min_konsentrat,
                   include>>

InitKatalog ==
    /\ version = "v1"
    /\ df_pakan = TabelSkenario
    /\ nutrition_requirements = CsvKebutuhan
    /\ Mulai

NextKatalog ==
    \/ \E U \in FileUnggah : Unggah(U)
    \/ \E sel \in Selections(mineral_df) : PilihMineral(sel)
    \/ OptimasiMineral

SpecKatalog == InitKatalog /\ [][NextKatalog]_vars

-----------------------------------------------------------------------------
(* A session of Optimasi dengan Mineral (v1) with a cheap supplement.      *)

InitSuplemen ==
    /\ version = "v1"
    /\ df_pakan = TabelSkenario
    /\ nutrition_requirements = CsvKebutuhan
    /\ mineral_df = TabelKapur
    /\ MulaiWidget

NextSuplemen ==
    \/ \E j \in JenisHewan, k \in KategoriUmur : PilihHewan(j, k)
    \/ \E sel \in Selections(df_pakan) : PilihPakan(sel)
    \/ \E sel \in Selections(mineral_df) : PilihMineral(sel)
    \/ \E a \in AmountChoices : AturJumlah(a[1], a[2])
    \/ OptimasiMineral

SpecSuplemen == InitSuplemen /\ [][NextSuplemen]_vars

-----------------------------------------------------------------------------
(* The tab "Analisis Kebutuhan" of the mineral page: the minerals of a     *)
(* base ration against the requirement, and the supplements recommended    *)
(* for what is missing.                                                    *)

MacroKeys == {"Ca (%)", "P (%)", "Mg (%)"}

MineralKeySet == MacroKeys \cup PpmKeys

\* a mineral supplement table of two rows, the dearer per kg first
TabelSuplemen ==
    << Pakan("Mineral Mix", "Mineral", R(15000),
             Nut(R(0), R(0), R(5), R(2), R(1), R(100), R(20), R(50))),
       Pakan("Kapur", "Mineral", R(500),
             Nut(R(0), R(0), R(38), R(0), R(0), R(0), R(0), R(0))) >>

\* amounts typed into the number_input of a base feed (min_value 0.0,
\* step 0.1)
JumlahDasar == {R(0), Q(1, 2)} \cup {R(k) : k \in 1..MaxKg}

\* base_ca, base_p, base_mg (kg) and base_fe, base_cu, base_zn (g)
BaseMineral(key, feeds, amounts, df) ==
    RSum([i \in 1..Len(feeds) |->
            LET a == amounts[feeds[i]]
                v == Iloc0(df, feeds[i]).nut[key]
            IN  IF key \in PpmKeys
                THEN RMul(RMul(a, v), RDiv(a, R(1000)))
                ELSE RDiv(RMul(a, v), R(100))])

\* req_ca, ..., req_zn
ReqMineral(key, req, total) ==
    RDiv(RMul(Get(req, key, R(0)), total),
         IF key \in PpmKeys THEN R(1000) ELSE R(100))

RMax(a, b) == IF RLeq(a, b) THEN b ELSE a

\* ca_needed, ..., zn_needed of one supplement
Needed(key, data, base, req) ==
    IF key \in PpmKeys
    THEN RDiv(RMax(R(0), RDiv(RMul(RSub(req[key], base[key]), R(1000000)),
                              data.nut[key])),
              R(1000))
    ELSE RMax(R(0), RDiv(RSub(req[key], base[key]), RDiv(data.nut[key], R(100))))

\* the deficient minerals the supplement has something of
Rationale(data, base, req) ==
    { k \in MineralKeySet : RLt(base[k], req[k]) /\ RLt(R(0), data.nut[k]) }

RECURSIVE MaxNeeded(_, _, _, _)
MaxNeeded(keys, data, base, req) ==
    IF keys = << >> THEN R(0)
    ELSE LET rest == MaxNeeded(Tail(keys), data, base, req)
         IN  IF Head(keys) \in Rationale(data, base, req)
             THEN RMax(Needed(Head(keys), data, base, req), rest)
             ELSE rest

Recommendation(mineral, df, base, req) ==
    LET data   == Iloc0(df, mineral)
        amount == MaxNeeded(MineralKeys, data, base, req)
    IN  [mineral |-> mineral, amount |-> amount,
         cost |-> RMul(amount, data.harga),
         rationale |-> Rationale(data, base, req)]

\* provides_needed and required_amount > 0
Recommendations(selected, df, base, req) ==
    SelectSeq([i \in 1..Len(selected) |-> Recommendation(selected[i], df, base, req)],
              LAMBDA r : r.rationale # {} /\ RLt(R(0), r.amount))

\* the recommendations left in the order of the selection
TanpaUrut(recs) == recs

\* recommendations.sort(key=lambda x: x['cost']); equal costs keep their order
RECURSIVE SortByCost(_)
SortByCost(recs) ==
    IF recs = << >> THEN << >>
    ELSE LET rest  == SortByCost(SubSeq(recs, 1, Len(recs) - 1))
             last  == recs[Len(recs)]
             front == Cardinality({i \in 1..Len(rest) : RLeq(rest[i].cost, last.cost)})
         IN  SubSeq(rest, 1, front) \o <<last>> \o SubSeq(rest, front + 1, Len(rest))

\* new_ca, ..., new_zn after adding best_rec
NewMineral(key, base, best_rec, data) ==
    RAdd(base[key],
         IF key \in PpmKeys
         THEN RMul(RMul(best_rec.amount, data.nut[key]), RDiv(best_rec.amount, R(1000)))
         ELSE RDiv(RMul(best_rec.amount, data.nut[key]), R(100)))

HasilAnalisis ==
    LET total_amount == RSum([i \in 1..Len(base_feeds) |-> base_feed_amounts[base_feeds[i]]])
        base == [k \in MineralKeySet |-> BaseMineral(k, base_feeds, base_feed_amounts, df_pakan)]
        req  == [k \in MineralKeySet |-> ReqMineral(k, nutrient_req, total_amount)]
        kekurangan == { k \in MineralKeySet : RLt(base[k], req[k]) }
        recs == IF kekurangan # {} /\ selected_minerals # << >>
                THEN SortByCost(Recommendations(selected_minerals, mineral_df, base, req))
                ELSE << >>
    IN  IF base_feeds = << >> THEN [NoAnalisis EXCEPT !.status = "ERROR_NO_FEED"]
        ELSE IF RLeq(total_amount, R(0)) THEN [NoAnalisis EXCEPT !.status = "ERROR_TOTAL"]
        ELSE [status |-> "DONE", base |-> base, req |-> req, kekurangan |-> kekurangan,
              recommendations |-> recs,
              new |-> IF recs = << >> THEN EmptyDict
                      ELSE [k \in MineralKeySet |->
                              NewMineral(k, base, recs[1], Iloc0(mineral_df, recs[1].mineral))]]

\* the multiselect of the base ration: a feed newly selected starts at 0 kg
PilihRansumDasar(sel) ==
    /\ sel \in Selections(df_pakan)
    /\ sel # base_feeds
    /\ base_feeds' = sel
    /\ base_feed_amounts' =
          [f \in {sel[i] : i \in 1..Len(sel)} |->
              IF f \in DOMAIN base_feed_amounts THEN base_feed_amounts[f] ELSE R(0)]
    /\ FreshRun
    /\ prev' = NoPrev
    /\ UNCHANGED <<inputs, selected_minerals>>

AturJumlahDasar(feed, a) ==
    /\ feed \in DOMAIN base_feed_amounts
    /\ a \in JumlahDasar
    /\ a # base_feed_amounts[feed]
    /\ base_feed_amounts' = [base_feed_amounts EXCEPT ![feed] = a]
    /\ FreshRun
    /\ prev' = NoPrev
    /\ UNCHANGED <<inputs, base_feeds, selected_minerals>>

PilihSuplemen(sel) ==
    /\ sel \in Selections(mineral_df)
    /\ sel # selected_minerals
    /\ selected_minerals' = sel
    /\ FreshRun
    /\ prev' = NoPrev
    /\ UNCHANGED <<inputs, base_feeds, base_feed_amounts>>

\* the button "Analisis Mineral"
AnalisisMineral ==
    /\ analisis' = HasilAnalisis
    /\ NothingBuilt
    /\ out' = NoOut
    /\ UNCHANGED <<inputs, prev, tab_mineral>>

InitAnalisis ==
    /\ version = "main"
    /\ df_pakan = TabelSkenario
    /\ nutrition_requirements = CsvKebutuhan
    /\ mineral_df = TabelSuplemen
    /\ MulaiWidget

NextAnalisis ==
    \/ \E j \in JenisHewan, k \in KategoriUmur : PilihHewan(j, k)
    \/ \E sel \in Selections(df_pakan) : PilihRansumDasar(sel)
    \/ \E f \in DOMAIN base_feed_amounts, a \in JumlahDasar : AturJumlahDasar(f, a)
    \/ \E sel \in Selections(mineral_df) : PilihSuplemen(sel)
    \/ AnalisisMineral

SpecAnalisis == InitAnalisis /\ [][NextAnalisis]_vars

-----------------------------------------------------------------------------
(* Properties.                                                             *)

\* the feed_data rows, in column order, of the handler that reported out
SolvedDatas == IF out.handler = "Standar" THEN StandarDatas ELSE MineralDatas

\* the nutrients the built problem has a row for
Enforced == {row_key[i] : i \in 1..Len(row_key)} \cap NutKeySet

\* (sum_i x_i * c_i[n]) / (sum_i x_i)
Concentration(x, datas, n) ==
    RDiv(RSum([i \in 1..Len(x) |-> RMul(x[i], Get(datas[i].nut, n, R(0)))]), RSum(x))

Required(n) == Get(nutrient_req, n, R(0))

\* C1: whenever a solve is reported as successful, the concentration of
\* every enforced nutrient in the returned mix is at least its required
\* minimum.
C1_EnforcedNutrientsMet ==
    out.status = "OPTIMAL" =>
        \A n \in Enforced :
            RLeq(Required(n), Concentration(result.x, SolvedDatas, n))

\* the scenario of the specification: catalog A and B, bounds 5 and 10 kg,
\* no proportion rows, solved by Optimasi Standar
Skenario(kategori) ==
    /\ version = "v1"
    /\ df_pakan = TabelSkenario
    /\ available_feeds = <<"A", "B">>
    /\ jenis_hewan = "Sapi Potong"
    /\ kategori_umur = kategori
    /\ min_amount = 5
    /\ max_amount = 10
    /\ ~use_ratio_constraint
    /\ out.handler = "Standar"

\* C2: in the scenario with minimums protein 12 % and TDN 60 %, the solve
\* is reported successful with a positive amount of B and a realized
\* protein concentration of at least 12 %.
C2_SkenarioFavoursB ==
    (Skenario("Kering") /\ Required("Protein (%)") = R(12) /\ Required("TDN (%)") = R(60)) =>
        /\ out.status = "OPTIMAL"
        /\ RLt(R(0), result.x[2])
        /\ RLeq(R(12), out.realized["Protein (%)"])

\* C3: in the scenario with a protein minimum of 50 %, above the protein
\* concentration of both ingredients, the solve is reported infeasible.
C3_ProteinAboveEveryIngredientInfeasible ==
    (Skenario("Protein Tinggi") /\ Required("Protein (%)") = R(50)) =>
        out.status = "INFEASIBLE"

\* far above the solver's tolerances, far below the 0.001 kg of the
\* interpreter
SolverTolerance == Q(1, 10000)

\* C4: the total the interpreter reports for a successful solve lies
\* between min_amount and max_amount, up to the solver's tolerance.
C4_ReportedTotalWithinBounds ==
    out.status = "OPTIMAL" =>
        /\ RLeq(RSub(R(min_amount), SolverTolerance), out.total_amount)
        /\ RLeq(out.total_amount, RAdd(R(max_amount), SolverTolerance))

\* an ingredient that meets the minimum of every nutrient the problem has a
\* row for
MeetsAll(d) == \A k \in Enforced : RLeq(Required(k), Get(d.nut, k, R(0)))

\* one ingredient whose concentration of n is exactly the minimum of n,
\* solved with min_amount = max_amount and a row for n
SingleCase(n) ==
    /\ out.handler # "none"
    /\ Len(SolvedDatas) = 1
    /\ min_amount = max_amount
    /\ n \in Enforced
    /\ Get(SolvedDatas[1].nut, n, R(0)) = Required(n)

ProportionKeys == {"Hijauan", "Konsentrat", "feed_proportion"}

\* C5: solving a single ingredient whose concentration of n equals the
\* minimum of n, with equal bounds and n enforced, is reported successful
\* with a realized concentration of n equal to the minimum.  Stated for the
\* solves in which the ingredient meets the other enforced minimums as well
\* and no proportion row is present, where nothing else can stand in the
\* way of a solution.
C5_SingleIngredientRoundTrip ==
    \A n \in NutKeySet :
        (/\ SingleCase(n)
         /\ MeetsAll(SolvedDatas[1])
         /\ \A i \in 1..Len(row_key) : row_key[i] \notin ProportionKeys) =>
            /\ out.status = "OPTIMAL"
            /\ n \in DOMAIN out.realized
            /\ out.realized[n] = Required(n)

\* the factors by which row i scaled its right-hand side and its
\* coefficients, taken from the cells that are not zero
ScaleFactors(i) ==
    LET m == RMul(Required(row_key[i]), R(min_amount))
    IN  (IF m.n # 0 THEN {RDiv(b_ub[i], RNeg(m))} ELSE {})
        \cup { RDiv(A_ub[i][j], RNeg(Get(MineralDatas[j].nut, row_key[i], R(0)))) :
                 j \in { k \in 1..Len(A_ub[i]) :
                            Get(MineralDatas[k].nut, row_key[i], R(0)).n # 0 } }

\* C6: every row built for Fe, Cu or Zn scales its right-hand side and each
\* of its coefficients by one and the same positive factor, so the row is
\* equivalent to sum_i ppm_i * x_i >= m * min_amount.
C6_PpmRowsScaledConsistently ==
    \A i \in 1..Len(row_key) :
        (row_key[i] \in PpmKeys /\ Len(A_ub[i]) = Len(MineralDatas)) =>
            /\ Cardinality(ScaleFactors(i)) <= 1
            /\ \A k \in ScaleFactors(i) : k.n > 0
            /\ Required(row_key[i]).n = 0 => b_ub[i].n = 0
            /\ \A j \in 1..Len(A_ub[i]) :
                   Get(MineralDatas[j].nut, row_key[i], R(0)).n = 0 => A_ub[i][j].n = 0

\* column j of a solved problem of v1 belongs to an ingredient that meets
\* every enforced minimum
Qualifies(j) == MeetsAll(SolvedDatas[j])

SolvedV1 ==
    /\ out.handler \in {"Standar", "Mineral"}
    /\ out.status # "EXCEPTION"
    /\ 0 < min_amount
    /\ min_amount <= max_amount

\* C7 as stated: a v1 solve over ingredients of which at least one meets
\* every enforced nutrient minimum, with 0 < min_amount <= max_amount, is
\* reported successful.
C7_QualifyingIngredientFeasible ==
    (SolvedV1 /\ \E j \in 1..Len(SolvedDatas) : Qualifies(j)) =>
        out.status = "OPTIMAL"

\* C7, amended: the same, when the qualifying ingredient alone also
\* satisfies every proportion row of the problem (minimum share of hijauan
\* or konsentrat, 70 % regular feed).
C7_QualifyingIngredientFeasibleAmended ==
    (/\ SolvedV1
     /\ \E j \in 1..Len(SolvedDatas) :
           /\ Qualifies(j)
           /\ \A i \in 1..Len(row_key) :
                  row_key[i] \in ProportionKeys => RLeq(A_ub[i][j], R(0))) =>
        out.status = "OPTIMAL"

\* a solve with a mineral supplement selected, where the 70 % row is
\* present and a regular feed qualifies
C7_Witness ==
    /\ SolvedV1
    /\ out.handler = "Mineral"
    /\ \E i \in 1..Len(row_key) : row_key[i] = "feed_proportion"
    /\ \E j \in 1..Len(SolvedDatas) :
          /\ Qualifies(j)
          /\ \A i \in 1..Len(row_key) :
                 row_key[i] \in ProportionKeys => RLeq(A_ub[i][j], R(0))
    /\ out.status = "OPTIMAL"

\* T is U with no price lower and the rest of the table the same
HargaNaik(T, U) ==
    /\ SamaSelainHarga(T, U)
    /\ \A i \in 1..Len(T) : RLeq(T[i].harga, U[i].harga)

\* C8: when prices of the feed table are raised and the same problem is
\* solved again, the reported total cost is not lower than before.
C8_CostMonotone ==
    (/\ prev.handler = "Standar" /\ prev.status = "OPTIMAL"
     /\ out.handler = "Standar" /\ out.status = "OPTIMAL"
     /\ HargaNaik(prev.df, df_pakan)) =>
        RLeq(prev.total_cost, out.total_cost)

C10_UnknownPairNotSubstituted ==
    Found(nutrition_requirements, jenis_hewan, kategori_umur) = {} =>
        nutrient_req \notin {default_nutrition_requirement, EmptyDict}

\* C11: whenever the solver reports failure, the outcome is INFEASIBLE with
\* no amounts, no realized values and no cost, no success is announced, and
\* no exception ends the handler.
C11_FailureIsPlainInfeasible ==
    (result.bound /\ ~result.success) =>
        /\ out.status = "INFEASIBLE"
        /\ out.amounts_used = << >>
        /\ out.realized = EmptyDict
        /\ out.total_cost = R(0)
        /\ "success" \notin out.shown

\* the ingredient list of the handler whose button was pressed
SelectedOf == IF out.handler = "Standar" THEN available_feeds ELSE all_available_feeds

\* C13: a solve requested with an empty ingredient list is answered with an
\* explicit error, with no constraint row built and no call of the solver;
\* it is not passed over in silence.
C13_EmptyListRejected ==
    (out.handler # "none" /\ SelectedOf = << >>) =>
        /\ "error" \in out.shown
        /\ A_ub = << >>
        /\ ~result.bound

C15_BoundsOrderedWhenSolved ==
    result.bound => (0 < min_amount /\ min_amount <= max_amount)

\* the feed table in use is an uploaded file that passed the validation
ValidatedInUse == out.handler = "Unggah" /\ out.status = "VALID"

\* C16: after a successful validation every ingredient has a value for
\* each of the eight nutrient codes, and no handler builds its rows over a
\* selected ingredient with an absent value.
C16_NoAbsentNutrient ==
    /\ ValidatedInUse =>
           \A i \in 1..Len(df_pakan) : \A k \in NutKeySet :
               k \in DOMAIN df_pakan[i].nut /\ df_pakan[i].nut[k] # NaN
    /\ out.handler = "Mineral" =>
           \A i \in 1..Len(MineralDatas) : \A k \in NutKeySet :
               k \in DOMAIN MineralDatas[i].nut /\ MineralDatas[i].nut[k] # NaN

\* C17: a catalog that passed the validation has no negative price, no
\* name twice, protein, TDN, Ca, P and Mg within 0..100 and Fe, Cu and Zn
\* not negative.
C17_ValidatedCatalogInRange ==
    ValidatedInUse =>
        /\ \A i \in 1..Len(df_pakan) :
               /\ df_pakan[i].harga.d # 0 /\ df_pakan[i].harga.n >= 0
               /\ \A k \in NutKeySet \ PpmKeys :
                      LET x == df_pakan[i].nut[k]
                      IN  x.d # 0 /\ x.n >= 0 /\ ~Above100(x)
               /\ \A k \in PpmKeys :
                      df_pakan[i].nut[k].d # 0 /\ df_pakan[i].nut[k].n >= 0
        /\ \A i, j \in 1..Len(df_pakan) : i # j => df_pakan[i].nama # df_pakan[j].nama

\* sum(x_i * c_i[n] / 100) * 100 / sum(x_i) over the solver's answer
AvgOtomatis(n) == Concentration(result.x, MineralDatas, n)

\* the realized concentration of n lies between the minimum and 1.1 times it
Dekat(n) ==
    /\ RLeq(Required(n), AvgOtomatis(n))
    /\ RLeq(AvgOtomatis(n), RMul(Required(n), Q(11, 10)))

\* C18: after a successful solve of Optimalisasi Otomatis, for protein and
\* for TDN, when the realized concentration is within 10 % above the
\* minimum the suggestions shown are the two unselected rows of the feed
\* table richest in that nutrient, in descending order.
C18_AlternativesSuggested ==
    (out.handler = "Otomatis" /\ result.bound /\ result.success
        /\ RSum(result.x).n # 0) =>
        \A n \in {"Protein (%)", "TDN (%)"} :
            Dekat(n) =>
                Get(out.saran, n, << >>) =
                    Names(head(sort_values(NotIsin(df_pakan, available_feeds), n), 2))

\* the problem the handler that ran builds from the tables and the widgets
BuiltCost ==
    IF out.handler = "Otomatis" THEN OtomatisCost ELSE CostVector(SolvedDatas)

BuiltRows ==
    IF out.handler = "Otomatis" THEN OtomatisRows(MineralDatas)
    ELSE IF out.handler = "Mineral" THEN MineralRows(MineralDatas)
    ELSE StandarRows(StandarDatas)

\* C19: a step in which linprog is called and its answer interpreted leaves
\* the feed table, the mineral table, the requirement table and the
\* requirement in use as they were, whether the solve succeeds or fails,
\* and after it the cost vector, the constraint rows and the right-hand
\* sides are still the ones built from them.
C19_SolveLeavesInputs ==
    /\ [][result'.bound =>
             /\ df_pakan' = df_pakan
             /\ mineral_df' = mineral_df
             /\ nutrition_requirements' = nutrition_requirements
             /\ nutrient_req' = nutrient_req]_vars
    /\ [](result.bound =>
             /\ c = BuiltCost
             /\ A_ub = Coefs(BuiltRows)
             /\ b_ub = Rhs(BuiltRows))

C19_Witness ==
    /\ out.handler = "Mineral"
    /\ result.bound /\ ~result.success
    /\ Len(c) = 3
    /\ c = BuiltCost
    /\ A_ub = Coefs(BuiltRows)

SelectedRow(i) ==
    IF i <= Len(available_feeds) THEN Iloc0(df_pakan, all_available_feeds[i])
    ELSE Iloc0(mineral_df, all_available_feeds[i])

\* C21: in a problem built by Optimasi dengan Mineral the cost vector has
\* one entry per selected ingredient, and entry i of the cost vector and
\* column i of the protein, TDN, Ca, P and Mg rows are the price and the
\* concentrations of the i-th selected ingredient, also when a name is in
\* both tables.
C21_ColumnsFollowSelection ==
    (out.handler = "Mineral" /\ c # << >>) =>
        /\ Len(c) = Len(all_available_feeds)
        /\ \A i \in 1..Len(c) :
               /\ c[i] = SelectedRow(i).harga
               /\ \A r \in 1..Len(row_key) :
                      row_key[r] \in NutKeySet \ PpmKeys =>
                          A_ub[r][i] = RNeg(SelectedRow(i).nut[row_key[r]])

\* the part of x taken from the ingredients of a category
CategoryAmount(x, datas, kategori) ==
    RSum([i \in 1..Len(x) |-> IF datas[i].kategori = kategori THEN x[i] ELSE R(0)])

MinPct(kategori) == IF kategori = "Hijauan" THEN min_hijauan ELSE min_konsentrat

\* amounts of one ingredient tried against a row
TestAmounts == {R(0), Q(1, 2), R(1), R(3)}

TestVectors(n) == [1..n -> TestAmounts]

\* row r of the built problem holds for x
RowHolds(r, x) ==
    RLeq(RSum([i \in 1..Len(x) |-> RMul(A_ub[r][i], x[i])]), b_ub[r])

\* hijauan_amount and konsentrat_amount: the reported amounts of a category
ReportedCategoryAmount(kategori) ==
    RSum([k \in 1..Len(out.feeds_used) |->
             IF Iloc0(df_pakan, out.feeds_used[k]).kategori = kategori
             THEN out.amounts_used[k] ELSE R(0)])

RegularAmount(x) == RSum(SubSeq(x, 1, Len(available_feeds)))

\* C23: when Optimasi dengan Mineral is solved with at least one regular
\* feed and at least one mineral supplement selected, a successful solve
\* takes at least 70 % of its total mass from the regular feeds.
C23_RegularFeedsSeventyPercent ==
    (/\ out.handler = "Mineral" /\ result.bound /\ result.success
     /\ available_feeds # << >> /\ available_minerals # << >>) =>
        RLeq(RMul(Q(7, 10), RSum(result.x)), RegularAmount(result.x))

\* the minerals the handler that ran was asked to enforce: the ticked
\* include_* boxes of Optimasi dengan Mineral; none in Optimasi Standar,
\* which has no mineral input; the fixed list of Optimalisasi Otomatis,
\* which has no boxes
ActiveMinerals ==
    IF out.handler = "Mineral" THEN include
    ELSE IF out.handler = "Otomatis" THEN {MineralKeys[k] : k \in 1..Len(MineralKeys)}
    ELSE {}

RowsFor(n) == {r \in 1..Len(row_key) : row_key[r] = n}

\* the minerals the user of the handler that ran has ticked; only Optimasi
\* dengan Mineral has boxes to tick
TickedMinerals == IF out.handler = "Mineral" THEN include ELSE {}

\* C24: every built problem has one protein row and one TDN row, and has
\* a row for a mineral exactly when the caller selected that mineral; a
\* mineral that was not selected has no row.
C24_RowsOnlyForTicked ==
    A_ub # << >> =>
        /\ Cardinality(RowsFor("Protein (%)")) = 1
        /\ Cardinality(RowsFor("TDN (%)")) = 1
        /\ \A k \in 1..Len(MineralKeys) :
               Cardinality(RowsFor(MineralKeys[k]))
                   = IF MineralKeys[k] \in TickedMinerals THEN 1 ELSE 0

\* C24 as amended: every built problem has one protein row and one TDN
\* row, and has a row for a mineral exactly when that mineral is among the
\* minerals the handler enforces: the ticked ones in Optimasi dengan
\* Mineral, none in Optimasi Standar, all six in Optimalisasi Otomatis.
C24_RowsFollowActiveSet ==
    A_ub # << >> =>
        /\ Cardinality(RowsFor("Protein (%)")) = 1
        /\ Cardinality(RowsFor("TDN (%)")) = 1
        /\ \A k \in 1..Len(MineralKeys) :
               Cardinality(RowsFor(MineralKeys[k]))
                   = IF MineralKeys[k] \in ActiveMinerals THEN 1 ELSE 0

C24_Witness ==
    /\ out.handler = "Mineral" /\ out.status = "OPTIMAL"
    /\ include = {"Fe (ppm)"}
    /\ RowsFor("Fe (ppm)") # {}
    /\ RowsFor("Ca (%)") = {}
    /\ Len(A_ub) = Len(b_ub)

\* C25: for every successful solve the reported total amount is the sum of
\* the solver's amounts and the reported total cost the sum of amount times
\* price, over all ingredients, those of at most 0.001 kg included.
C25_TotalsOverRawOutput ==
    out.status = "OPTIMAL" =>
        /\ out.total_amount = RSum(result.x)
        /\ out.total_cost =
               RSum([i \in 1..Len(result.x) |-> RMul(result.x[i], SolvedDatas[i].harga)])

\* C26: for every successful solve of Optimasi dengan Mineral a realized
\* concentration, the sum of amount times concentration over the total
\* amount, is reported for each of protein, TDN, Ca, P, Mg, Fe, Cu and Zn,
\* whether or not the mineral was selected as a constraint.
C26_EveryNutrientRealized ==
    (out.handler = "Mineral" /\ out.status = "OPTIMAL") =>
        \A n \in NutKeySet :
            /\ n \in DOMAIN out.realized
            /\ out.realized[n] = Concentration(result.x, MineralDatas, n)

\* the two minimum shares are positive and add up to more than 100 %
ShareAboveHundred ==
    /\ use_ratio_constraint
    /\ min_hijauan > 0 /\ min_konsentrat > 0
    /\ min_hijauan + min_konsentrat > 100

\* C27: when Optimasi Standar is pressed with the proportion constraint on
\* and minimum shares of hijauan and konsentrat that add up to more than
\* 100 %, the problem is still built and solved, and the solve fails: no
\* ration is reported.
C27_SharesAboveHundredFail ==
    (out.handler = "Standar" /\ available_feeds # << >> /\ ShareAboveHundred) =>
        /\ result.bound /\ ~result.success
        /\ out.status = "INFEASIBLE"
        /\ out.amounts_used = << >>

C27_Witness ==
    /\ out.handler = "Standar" /\ ShareAboveHundred
    /\ df_pakan = TabelSkenario /\ available_feeds = <<"A", "B">>
    /\ kategori_umur = "Pokok" /\ min_amount = 1 /\ max_amount = 2
    /\ Len(A_ub) = 6
    /\ result.bound /\ ~result.success

\* the same requirement rows held as a table and as a nested dictionary
SebagaiTabel(data) == [data EXCEPT !.bentuk = "DataFrame"]

SebagaiDict(data) == [data EXCEPT !.bentuk = "dict"]

\* C28: the requirement resolved for the selected (species, life-stage)
\* pair is what get_nutrition_requirement returns for that pair from the
\* same rows held as a table and from the same rows held as a nested
\* dictionary, for a pair the data knows and for one it does not.
C28_SameOutcomeForBothShapes ==
    /\ nutrient_req = get_nutrition_requirement(jenis_hewan, kategori_umur,
                                                SebagaiTabel(nutrition_requirements))
    /\ nutrient_req = get_nutrition_requirement(jenis_hewan, kategori_umur,
                                                SebagaiDict(nutrition_requirements))

\* the feed of a base ration of one feed
SingleBaseFeed == Iloc0(df_pakan, base_feeds[1])

\* C29: when the base ration analysed is a positive amount of one feed
\* whose Fe, Cu and Zn contents (ppm) equal the requirement's, the computed
\* supply of each of the three is the amount times the content per 1000,
\* as the requirement is, and no deficiency of them is reported.
C29_TraceSupplyLinear ==
    (/\ analisis.status = "DONE"
     /\ Len(base_feeds) = 1
     /\ \A k \in PpmKeys : SingleBaseFeed.nut[k] = Get(nutrient_req, k, R(0))) =>
        \A k \in PpmKeys :
            /\ analisis.base[k] =
                  RDiv(RMul(base_feed_amounts[base_feeds[1]], SingleBaseFeed.nut[k]), R(1000))
            /\ RLeq(analisis.req[k], analisis.base[k])
            /\ k \notin analisis.kekurangan

\* C30: the recommended supplements are listed in nondecreasing order of
\* cost, the first of them is the one whose addition is shown, and after
\* adding its recommended amount every macro mineral (Ca, P, Mg) that the
\* base ration lacks and that supplement contains reaches the requirement.
C30_BestIsCheapestAndCovers ==
    (analisis.status = "DONE" /\ analisis.recommendations # << >>) =>
        LET recs == analisis.recommendations
            data == Iloc0(mineral_df, recs[1].mineral)
        IN  /\ \A i \in 1..(Len(recs) - 1) : RLeq(recs[i].cost, recs[i + 1].cost)
            /\ \A k \in MacroKeys :
                  analisis.new[k] =
                      RAdd(analisis.base[k], RDiv(RMul(recs[1].amount, data.nut[k]), R(100)))
            /\ \A k \in MacroKeys :
                  (k \in analisis.kekurangan /\ RLt(R(0), data.nut[k])) =>
                      RLeq(analisis.req[k], analisis.new[k])

C30_Witness ==
    /\ analisis.status = "DONE"
    /\ Len(analisis.recommendations) = 2
    /\ analisis.recommendations[1].mineral = "Kapur"
    /\ RLt(analisis.recommendations[1].cost, analisis.recommendations[2].cost)
    /\ "Ca (%)" \in analisis.kekurangan
    /\ analisis.new["Ca (%)"] = analisis.req["Ca (%)"]

====
